---- MODULE Spec2Model ----
(***************************************************************************)
(* Model of the YELPH backend (backend/yelp_service.py, backend/main.py,   *)
(* backend/models.py): the business normalizer _parse_business, the        *)
(* response extractor _extract_businesses and the Google-calendar OAuth    *)
(* endpoints with their process-wide oauth_states store.                   *)
(*                                                                         *)
(* JSON values are tagged records; a JSON number is kept as an integer     *)
(* count of hundredths (Num(160934) is 1609.34), which is exact for every  *)
(* number the model draws.                                                 *)
(***************************************************************************)
EXTENDS Integers, Sequences, FiniteSets, TLC

VARIABLES
    pc,            \* position of the modelled call: "call", "ret", or "idle"
    hashOf,        \* this process's salted str hash (PYTHONHASHSEED): name -> int
    entity_data,   \* argument of _parse_business
    parsed,        \* list returned by _parse_business
    data,          \* argument of _extract_businesses (the raw response)
    extracted,     \* outcome of _extract_businesses: raised or the list returned,
                   \* and the _parse_business calls it made
    derived,       \* every (name, hash-derived id) pair produced so far, over all runs
    oauth_states,  \* main.oauth_states: state token -> [user_id]
    issued,        \* state tokens handed out by start_calendar_auth so far
    flows,         \* per issued token: the user_id given to start, how many
                   \* callbacks bore it, how many of them passed the state check,
                   \* and whether the exchange raised for one of them
    response,      \* the HTTP response of the last calendar request
    exchangeCalls, \* number of calls of calendar_service.exchange_code_for_token
    nreq,          \* number of calendar requests handled
    chatPc,        \* position of YelpAIService.chat: "idle", "await" (suspended
                   \* in client.post), "ret" or "raised"
    chatArgs,      \* arguments of the current chat invocation
    payload,       \* the JSON body chat built for the provider
    posts,         \* client.post calls made by the current chat invocation
    reply,         \* what came back from the provider for the current invocation
    chatResult,    \* the ChatResponse chat returned, if it returned
    nchat,         \* number of chat invocations so far
    tasks,         \* the callback requests handled as tasks of the event loop:
                   \* position in calendar_auth_callback, `state` borne, outcome
    running        \* the task the event loop is running, 0 when it runs none

vars == <<pc, hashOf, entity_data, parsed, data, extracted, derived,
          oauth_states, issued, flows, response, exchangeCalls, nreq,
          chatPc, chatArgs, payload, posts, reply, chatResult, nchat,
          tasks, running>>

normVars == <<pc, hashOf, entity_data, parsed, data, extracted, derived>>
authVars == <<oauth_states, issued, flows, response, exchangeCalls, nreq>>
chatVars == <<chatPc, chatArgs, payload, posts, reply, chatResult, nchat>>
loopVars == <<tasks, running>>

(***************************************************************************)
(* JSON values                                                             *)
(***************************************************************************)
Null == [t |-> "null"]
Str(s) == [t |-> "str", s |-> s]
Num(h) == [t |-> "num", h |-> h]
Bool(b) == [t |-> "bool", b |-> b]
List(q) == [t |-> "list", items |-> q]
Dict(f) == [t |-> "dict", d |-> f]

\* An exception escaping an expression.
Raise == [t |-> "raise"]

NoKeys == [k \in {} |-> Null]

\* Python truthiness of a JSON value (`if x:`).
Truthy(v) ==
    CASE v.t = "null" -> FALSE
      [] v.t = "str"  -> v.s # ""
      [] v.t = "num"  -> v.h # 0
      [] v.t = "bool" -> v.b
      [] v.t = "list" -> Len(v.items) > 0
      [] v.t = "dict" -> DOMAIN v.d # {}

\* `k in d` for a dict d.
HasKey(v, k) == k \in DOMAIN v.d

\* d.get(k, default) for a dict d.
Get(v, k, default) == IF k \in DOMAIN v.d THEN v.d[k] ELSE default

(***************************************************************************)
(* _parse_business, step by step                                           *)
(***************************************************************************)

\* TagsOf without the `if cat.get("title")` filter of line 161.
TagsOfUnfiltered(e) ==
    IF HasKey(e, "categories") /\ Truthy(e.d["categories"])
    THEN LET cats == e.d["categories"] IN
         IF cats.t # "list" THEN Raise
         ELSE IF \E i \in 1..Len(cats.items) : cats.items[i].t # "dict" THEN Raise
         ELSE List([i \in 1..Len(cats.items) |->
                        Get(cats.items[i], "title", Str(""))])
    ELSE List(<<>>)

\* yelp_service.py:160-162.  A truthy `categories` that is not a list of
\* dicts raises: iterating a number or a bool is a TypeError, the elements of
\* a str or the keys of a dict are strings and have no .get.
TagsOf(e) ==
    IF HasKey(e, "categories") /\ Truthy(e.d["categories"])
    THEN LET cats == e.d["categories"] IN
         IF cats.t # "list" THEN Raise
         ELSE IF \E i \in 1..Len(cats.items) : cats.items[i].t # "dict" THEN Raise
         ELSE LET titles == [i \in 1..Len(cats.items) |->
                                Get(cats.items[i], "title", Str(""))]
              IN List(SelectSeq(titles, Truthy))
    ELSE List(<<>>)

\* yelp_service.py:177-180 and 186-189: the first photo, by its shape.
FirstPhoto(photos) ==
    IF photos.items[1].t = "dict"
    THEN Get(photos.items[1], "original_url", Null)
    ELSE photos.items[1]

\* ImageOf with the first branch taken on a truthy image_url instead of on
\* the presence of the key.
ImageOfTruthy(e) ==
    IF HasKey(e, "image_url") /\ Truthy(e.d["image_url"]) THEN e.d["image_url"]
    ELSE IF HasKey(e, "contextual_info") THEN
        LET ci == e.d["contextual_info"] IN
        IF ci.t = "dict" /\ HasKey(ci, "photos")
        THEN LET photos == ci.d["photos"] IN
             IF photos.t = "list" /\ Len(photos.items) > 0
             THEN FirstPhoto(photos) ELSE Null
        ELSE Null
    ELSE IF HasKey(e, "photos") /\ Truthy(e.d["photos"]) THEN
        LET photos == e.d["photos"] IN
        IF photos.t = "list" /\ Len(photos.items) > 0
        THEN FirstPhoto(photos) ELSE Null
    ELSE Null

\* yelp_service.py:165-189: the if / elif / elif chain on key presence.
ImageOf(e) ==
    IF HasKey(e, "image_url") THEN e.d["image_url"]
    ELSE IF HasKey(e, "contextual_info") THEN
        LET ci == e.d["contextual_info"] IN
        IF ci.t = "dict" /\ HasKey(ci, "photos")
        THEN LET photos == ci.d["photos"] IN
             IF photos.t = "list" /\ Len(photos.items) > 0
             THEN FirstPhoto(photos) ELSE Null
        ELSE Null
    ELSE IF HasKey(e, "photos") /\ Truthy(e.d["photos"]) THEN
        LET photos == e.d["photos"] IN
        IF photos.t = "list" /\ Len(photos.items) > 0
        THEN FirstPhoto(photos) ELSE Null
    ELSE Null

\* CoordinatesOf taking a mapping with either key, the missing one read as 0.
CoordinatesOfEither(e) ==
    LET coords_data == Get(e, "coordinates", Null) IN
    IF Truthy(coords_data) /\ coords_data.t = "dict"
       /\ (HasKey(coords_data, "latitude") \/ HasKey(coords_data, "longitude"))
    THEN Dict([k \in {"latitude", "longitude"} |-> Get(coords_data, k, Num(0))])
    ELSE Null

\* yelp_service.py:192-199.
CoordinatesOf(e) ==
    LET coords_data == Get(e, "coordinates", Null) IN
    IF Truthy(coords_data) /\ coords_data.t = "dict"
       /\ HasKey(coords_data, "latitude") /\ HasKey(coords_data, "longitude")
    THEN Dict([k \in {"latitude", "longitude"} |-> coords_data.d[k]])
    ELSE Null

\* Tenths of a mile nearest to a hundredths of a meter, a >= 0:
\* a/100 * 0.000621371 * 10 = a * 621371 / 10^10, rounded to nearest.  The
\* product is split (621371 = 621 * 1000 + 371) to stay within 32 bits.
MileTenths(a) == (a * 621 + ((a * 371) \div 1000) + 5000000) \div 10000000

\* f"{x:.1f} mi" for x = h/100 * 0.000621371 (yelp_service.py:207).
FormatMiles(h) ==
    LET a == IF h < 0 THEN 0 - h ELSE h
        tenths == MileTenths(a)
    IN  (IF h < 0 THEN "-" ELSE "") \o ToString(tenths \div 10) \o "."
            \o ToString(tenths % 10) \o " mi"

\* DistanceOf formatting every distance that is not None, zero included.
DistanceOfNotNone(e) ==
    IF HasKey(e, "distance") THEN
        LET dist_meters == e.d["distance"] IN
        IF dist_meters.t # "null" THEN
            CASE dist_meters.t = "num"  -> Str(FormatMiles(dist_meters.h))
              [] dist_meters.t = "bool" ->
                    Str(FormatMiles(IF dist_meters.b THEN 100 ELSE 0))
              [] OTHER -> Raise
        ELSE Null
    ELSE Null

\* DistanceOf giving no distance for a value it cannot multiply.
DistanceOfForgiving(e) ==
    IF HasKey(e, "distance") THEN
        LET dist_meters == e.d["distance"] IN
        IF Truthy(dist_meters) THEN
            CASE dist_meters.t = "num"  -> Str(FormatMiles(dist_meters.h))
              [] dist_meters.t = "bool" -> Str(FormatMiles(100))
              [] OTHER -> Null
        ELSE Null
    ELSE Null

\* yelp_service.py:202-207.  A truthy bool multiplies as 1; a truthy str, list
\* or dict times a float is a TypeError.
DistanceOf(e) ==
    IF HasKey(e, "distance") THEN
        LET dist_meters == e.d["distance"] IN
        IF Truthy(dist_meters) THEN
            CASE dist_meters.t = "num"  -> Str(FormatMiles(dist_meters.h))
              [] dist_meters.t = "bool" -> Str(FormatMiles(100))
              [] OTHER -> Raise
        ELSE Null
    ELSE Null

\* str(hash(entity_data.get("name"))) (yelp_service.py:210), evaluated before
\* either .get that takes it as default.  A str hashes by the process's salted
\* hash; a list or dict is unhashable.  The hash of None, a number or a bool is
\* never observed, since such a name fails validation of Business.name.
HashIdOf(e, h) ==
    LET name == Get(e, "name", Null) IN
    CASE name.t = "str" -> Str(ToString(h[name.s]))
      [] name.t \in {"list", "dict"} -> Raise
      [] OTHER -> Str("hash")

\* IdOf written as `id or alias or hash`: an empty or null value falls through.
IdOfTruthy(e, h) ==
    LET hashed == HashIdOf(e, h) IN
    IF hashed = Raise THEN Raise
    ELSE IF Truthy(Get(e, "id", Null)) THEN e.d["id"]
    ELSE IF Truthy(Get(e, "alias", Null)) THEN e.d["alias"]
    ELSE hashed

\* yelp_service.py:210: id, else alias, else the hash of the name.
IdOf(e, h) ==
    LET hashed == HashIdOf(e, h) IN
    IF hashed = Raise THEN Raise
    ELSE Get(e, "id", Get(e, "alias", hashed))

(***************************************************************************)
(* models.Business: what pydantic (v2, lax mode) accepts for each field    *)
(***************************************************************************)
IsStr(v) == v.t = "str"
IsOptStr(v) == v.t \in {"null", "str"}
\* float: a number or a bool (no numeric string is ever drawn).
IsFloat(v) == v.t \in {"num", "bool"}
\* int: a number without fractional part, or a bool.
IsInt(v) == (v.t = "num" /\ v.h % 100 = 0) \/ v.t = "bool"
IsStrDict(v) == v.t = "dict" /\ \A k \in DOMAIN v.d : IsStr(v.d[k])

\* models.py:19-22.
ValidCoordinates(v) ==
    v.t = "dict" /\ IsFloat(v.d["latitude"]) /\ IsFloat(v.d["longitude"])

\* models.py:25-40: the keyword arguments pass validation.
ValidBusiness(b) ==
    /\ IsStr(b.id)
    /\ IsStr(b.name)
    /\ b.rating.t = "null" \/ IsFloat(b.rating)
    /\ b.reviews.t = "null" \/ IsInt(b.reviews)
    /\ IsOptStr(b.price)
    /\ IsOptStr(b.distance)
    /\ IsOptStr(b.image)
    /\ b.tags.t = "list" /\ \A i \in 1..Len(b.tags.items) : IsStr(b.tags.items[i])
    /\ IsInt(b.votes)
    /\ b.location.t \in {"null", "dict"}
    /\ b.coordinates.t = "null" \/ ValidCoordinates(b.coordinates)
    /\ IsOptStr(b.phone)
    /\ IsOptStr(b.url)
    /\ b.categories.t = "null"
          \/ (b.categories.t = "list"
                /\ \A i \in 1..Len(b.categories.items) : IsStrDict(b.categories.items[i]))

\* The value a numeric field holds after validation: a bool becomes 0 or 1.
AsNumber(v) == IF v.t = "bool" THEN Num(IF v.b THEN 100 ELSE 0) ELSE v

\* The Business pydantic builds from valid keyword arguments.
Coerced(b) ==
    [b EXCEPT !.rating = AsNumber(@), !.reviews = AsNumber(@),
              !.coordinates = IF @.t = "dict"
                              THEN Dict([k \in DOMAIN @.d |-> AsNumber(@.d[k])])
                              ELSE @]

\* BusinessArgs taking votes from the raw record.
BusinessArgsRawVotes(e, h) ==
    LET tags == TagsOf(e)
        image_url == ImageOf(e)
        coordinates == CoordinatesOf(e)
        distance == DistanceOf(e)
        id == IdOf(e, h)
    IN  IF Raise \in {tags, distance, id} THEN Raise
        ELSE [id |-> id,
              name |-> Get(e, "name", Str("")),
              rating |-> Get(e, "rating", Null),
              reviews |-> Get(e, "review_count", Num(0)),
              price |-> Get(e, "price", Null),
              distance |-> distance,
              image |-> image_url,
              tags |-> tags,
              votes |-> Get(e, "votes", Num(0)),
              location |-> Get(e, "location", Null),
              coordinates |-> coordinates,
              phone |-> Get(e, "phone", Null),
              url |-> Get(e, "url", Null),
              categories |-> Get(e, "categories", Null)]

\* yelp_service.py:209-224: the keyword arguments of Business(...), or Raise
\* when computing one of them raised.
BusinessArgs(e, h) ==
    LET tags == TagsOf(e)
        image_url == ImageOf(e)
        coordinates == CoordinatesOf(e)
        distance == DistanceOf(e)
        id == IdOf(e, h)
    IN  IF Raise \in {tags, distance, id} THEN Raise
        ELSE [id |-> id,
              name |-> Get(e, "name", Str("")),
              rating |-> Get(e, "rating", Null),
              reviews |-> Get(e, "review_count", Num(0)),
              price |-> Get(e, "price", Null),
              distance |-> distance,
              image |-> image_url,
              tags |-> tags,
              votes |-> Num(0),
              location |-> Get(e, "location", Null),
              coordinates |-> coordinates,
              phone |-> Get(e, "phone", Null),
              url |-> Get(e, "url", Null),
              categories |-> Get(e, "categories", Null)]

\* ParseBusiness without the check of lines 156-157: a record without a name
\* becomes a Business with the default name.
ParseBusinessNoNameCheck(e, h) ==
    IF e.t # "dict" THEN <<>>
    ELSE LET args == BusinessArgs(e, h) IN
         IF args = Raise THEN <<>>
         ELSE IF ~ValidBusiness(args) THEN <<>>
         ELSE <<Coerced(args)>>

\* yelp_service.py:144-229.  Every exception is caught and gives [].  An
\* entity_data that is no dict always ends in []: `"name" not in x` is a
\* TypeError for None, a number or a bool; for a str or a list it is either
\* true (return []) or the later entity_data.get is an AttributeError.
ParseBusiness(e, h) ==
    IF e.t # "dict" THEN <<>>
    ELSE IF ~HasKey(e, "name") THEN <<>>
    ELSE LET args == BusinessArgs(e, h) IN
         IF args = Raise THEN <<>>
         ELSE IF ~ValidBusiness(args) THEN <<>>
         ELSE <<Coerced(args)>>

\* RecordAfterParse with line 213 written as
\* entity_data.setdefault("review_count", 0): a record that gets that far
\* without the key leaves with it.
RecordAfterParseSetDefault(e, h) ==
    IF e.t # "dict" THEN e
    ELSE IF ~HasKey(e, "name") THEN e
    ELSE IF Raise \in {TagsOf(e), DistanceOf(e), IdOf(e, h)} THEN e
    ELSE IF HasKey(e, "review_count") THEN e
    ELSE Dict(("review_count" :> Num(0)) @@ e.d)

\* The object entity_data refers to, as _parse_business leaves it
\* (yelp_service.py:154-229).  The function only reads it: `in` tests, .get
\* and subscript reads; tags, coordinates and the Business are new objects.
\* No statement assigns to a key, deletes one, or calls setdefault, pop or
\* update on it or on a value nested in it.
RecordAfterParse(e, h) == e

(***************************************************************************)
(* _extract_businesses                                                     *)
(***************************************************************************)

\* The legacy `entities` mapping, with the enumeration order of its items.
Map(pairs) == [t |-> "map", pairs |-> pairs]

\* The characters of a str, for the strings drawn as a `businesses` value.
Chars(s) ==
    CASE s = "" -> <<>>
      [] s = "ab" -> <<Str("a"), Str("b")>>

RECURSIVE KeysOf(_)
\* The keys of a dict as iteration yields them; the order is immaterial here,
\* every key being a str that _parse_business turns into [].
KeysOf(d) ==
    IF DOMAIN d = {} THEN <<>>
    ELSE LET k == CHOOSE x \in DOMAIN d : TRUE
         IN  <<Str(k)>> \o KeysOf([x \in DOMAIN d \ {k} |-> d[x]])

\* What `for business_data in entity.get("businesses", [])` iterates over
\* (yelp_service.py:127): a number, a bool or None is not iterable.
IterOf(v) ==
    CASE v.t = "list" -> [raised |-> FALSE, args |-> v.items]
      [] v.t = "str"  -> [raised |-> FALSE, args |-> Chars(v.s)]
      [] v.t = "dict" -> [raised |-> FALSE, args |-> KeysOf(v.d)]
      [] OTHER -> [raised |-> TRUE, args |-> <<>>]

\* EntityCalls with `if` in place of `elif` at line 129: an entity with both
\* keys is normalized itself after its nested businesses.
EntityCallsBoth(entity) ==
    IF entity.t = "dict" /\ HasKey(entity, "businesses")
    THEN LET it == IterOf(entity.d["businesses"]) IN
         IF ~it.raised /\ HasKey(entity, "name")
         THEN [raised |-> FALSE, args |-> it.args \o <<entity>>]
         ELSE it
    ELSE IF entity.t = "dict" /\ HasKey(entity, "name")
    THEN [raised |-> FALSE, args |-> <<entity>>]
    ELSE [raised |-> FALSE, args |-> <<>>]

\* yelp_service.py:125-131: the arguments one entity of the list shape hands
\* to _parse_business, in order, unless the loop header raises.
EntityCalls(entity) ==
    IF entity.t = "dict" /\ HasKey(entity, "businesses")
    THEN IterOf(entity.d["businesses"])
    ELSE IF entity.t = "dict" /\ HasKey(entity, "name")
    THEN [raised |-> FALSE, args |-> <<entity>>]
    ELSE [raised |-> FALSE, args |-> <<>>]

RECURSIVE ParseAll(_, _)
\* businesses.extend(self._parse_business(x)) for each x of args, with the
\* call made for each.
ParseAll(args, h) ==
    IF args = <<>> THEN [businesses |-> <<>>, calls |-> <<>>]
    ELSE LET r == ParseBusiness(Head(args), h)
             rest == ParseAll(Tail(args), h)
         IN  [businesses |-> r \o rest.businesses,
              calls |-> <<[arg |-> Head(args), result |-> r]>> \o rest.calls]

RECURSIVE ExtractList(_, _)
\* yelp_service.py:124-132: the loop over a list of entities.  An exception
\* of the loop header at line 127 is not caught and ends the extraction.
ExtractList(entities, h) ==
    IF entities = <<>> THEN [raised |-> FALSE, businesses |-> <<>>, calls |-> <<>>]
    ELSE LET it == EntityCalls(Head(entities)) IN
         IF it.raised THEN [raised |-> TRUE, businesses |-> <<>>, calls |-> <<>>]
         ELSE LET here == ParseAll(it.args, h)
                  rest == ExtractList(Tail(entities), h)
              IN  [raised |-> rest.raised,
                   businesses |-> IF rest.raised THEN <<>>
                                  ELSE here.businesses \o rest.businesses,
                   calls |-> here.calls \o rest.calls]

\* MapCalls without the `"name" in entity_data` test of line 138: every value
\* that is a dict is handed to _parse_business.
MapCallsAll(pairs) ==
    LET vals == [i \in 1..Len(pairs) |-> pairs[i].v]
        IsDict(v) == v.t = "dict"
    IN  SelectSeq(vals, IsDict)

\* yelp_service.py:136-139: the values of the mapping that are dicts with a
\* name, in enumeration order.
MapCalls(pairs) ==
    LET vals == [i \in 1..Len(pairs) |-> pairs[i].v]
        IsBusiness(v) == v.t = "dict" /\ HasKey(v, "name")
    IN  SelectSeq(vals, IsBusiness)

\* yelp_service.py:125-131: one entity of the list as the loop body leaves
\* it.  The records handed to _parse_business are the elements of a
\* `businesses` list, or the entity itself; the characters of a str and the
\* keys of a dict are objects of their own.
EntityAfterExtract(entity, h) ==
    IF entity.t = "dict" /\ HasKey(entity, "businesses")
    THEN IF entity.d["businesses"].t = "list"
         THEN Dict([entity.d EXCEPT !["businesses"] =
                      List([i \in 1..Len(entity.d["businesses"].items) |->
                               RecordAfterParse(entity.d["businesses"].items[i], h)])])
         ELSE entity
    ELSE IF entity.t = "dict" /\ HasKey(entity, "name")
    THEN RecordAfterParse(entity, h)
    ELSE entity

RECURSIVE EntitiesAfterExtract(_, _)
\* yelp_service.py:124-132: the list of entities as the loop leaves it; the
\* entities behind one whose loop header raises are never reached.
EntitiesAfterExtract(entities, h) ==
    IF entities = <<>> THEN <<>>
    ELSE IF EntityCalls(Head(entities)).raised THEN entities
    ELSE <<EntityAfterExtract(Head(entities), h)>>
            \o EntitiesAfterExtract(Tail(entities), h)

\* yelp_service.py:109-142: the object `data` refers to, as
\* _extract_businesses leaves it.  The function itself only reads data and
\* appends to its own `businesses` list; the records it hands to
\* _parse_business are parts of data.
ResponseAfterExtract(d, h) ==
    IF ~HasKey(d, "entities") THEN d
    ELSE IF d.d["entities"].t = "list"
    THEN Dict([d.d EXCEPT !["entities"] =
                 List(EntitiesAfterExtract(d.d["entities"].items, h))])
    ELSE IF d.d["entities"].t = "map"
    THEN Dict([d.d EXCEPT !["entities"] =
                 Map([i \in 1..Len(d.d["entities"].pairs) |->
                        IF d.d["entities"].pairs[i].v.t = "dict"
                           /\ HasKey(d.d["entities"].pairs[i].v, "name")
                        THEN [k |-> d.d["entities"].pairs[i].k,
                              v |-> RecordAfterParse(d.d["entities"].pairs[i].v, h)]
                        ELSE d.d["entities"].pairs[i]])])
    ELSE d

\* ExtractBusinesses reading data["entities"] and iterating whatever it is.
ExtractBusinessesStrict(d, h) ==
    IF ~HasKey(d, "entities")
    THEN [raised |-> TRUE, businesses |-> <<>>, calls |-> <<>>]
    ELSE LET entities == d.d["entities"] IN
         IF entities.t = "list" THEN ExtractList(entities.items, h)
         ELSE IF entities.t = "map"
         THEN [raised |-> FALSE] @@ ParseAll(MapCalls(entities.pairs), h)
         ELSE [raised |-> entities.t \in {"null", "num", "bool"},
               businesses |-> <<>>, calls |-> <<>>]

\* yelp_service.py:109-142.  `data` is the dict of the response.
ExtractBusinesses(d, h) ==
    LET entities == Get(d, "entities", List(<<>>)) IN
    IF entities.t = "list" THEN ExtractList(entities.items, h)
    ELSE IF entities.t = "map"
    THEN [raised |-> FALSE] @@ ParseAll(MapCalls(entities.pairs), h)
    ELSE [raised |-> FALSE, businesses |-> <<>>, calls |-> <<>>]

(***************************************************************************)
(* Bounded inputs                                                          *)
(***************************************************************************)
MaxPhotos == 1        \* longest photos list drawn
MaxCategories == 2    \* longest categories list drawn

Names == {"A", "B"}
HashValues == {-7, 3, 42}
\* The salted hash functions a process may start with.
HashFunctions == [Names -> HashValues]

SeqsUpTo(S, n) == UNION {[1..k -> S] : k \in 0..n}
\* A key that is absent, or present with a value of S.
Opt(k, S) == {NoKeys} \cup {k :> v : v \in S}
Join(A, B) == {a @@ b : a \in A, b \in B}

CtxPhotoItems == {Str("u1"), Dict("original_url" :> Str("u2")), Dict(NoKeys)}
TopPhotoItems == {Str("u3"), Dict("original_url" :> Str("u4")), Dict(NoKeys)}
ContextualInfoValues ==
    {Null, Dict(NoKeys)}
        \cup {Dict("photos" :> List(q)) : q \in SeqsUpTo(CtxPhotoItems, MaxPhotos)}
PhotosValues == {Null} \cup {List(q) : q \in SeqsUpTo(TopPhotoItems, MaxPhotos)}
ImageFields ==
    Join(Join(Opt("image_url", {Null, Str("u0"), Str(""), Num(100)}),
              Opt("contextual_info", ContextualInfoValues)),
         Opt("photos", PhotosValues))

IdFields ==
    Join(Opt("id", {Str("id1"), Str(""), Num(700)}), Opt("alias", {Str("al1"), Null}))

CategoryItems ==
    {Dict("title" :> Str("T1") @@ "alias" :> Str("t1")), Dict("title" :> Str("T2")),
     Dict("title" :> Str("")), Dict("alias" :> Str("t3"))}
CategoriesValues ==
    {Null, Str("pizza"), List(<<Str("T1")>>), List(<<Dict("title" :> Null)>>)}
        \cup {List(q) : q \in SeqsUpTo(CategoryItems, MaxCategories)}
CategoryFields == Opt("categories", CategoriesValues)

CoordinatesValues ==
    {Null, Str("here"),
     Dict("latitude" :> Num(3777) @@ "longitude" :> Num(-12241)),
     Dict("latitude" :> Num(3777)), Dict("longitude" :> Num(-12241)),
     Dict("latitude" :> Str("north") @@ "longitude" :> Num(-12241))}
CoordinateFields == Opt("coordinates", CoordinatesValues)

\* Raw distances in hundredths of a meter: 0, 1 m, both sides of the 0.05 mi
\* rounding step, 1609.34 m, 25 km, and a negative one.
DistanceSamples == {0, 100, 8046, 8047, 160934, 2500000, -160934}
DistanceValues ==
    {Num(h) : h \in DistanceSamples}
        \cup {Null, Str("far"), Str(""), Bool(TRUE), Bool(FALSE)}
DistanceFields == Opt("distance", DistanceValues)

OtherFields ==
    Join(Join(Opt("votes", {Num(500)}), Opt("rating", {Num(450), Str("good")})),
         Opt("review_count", {Num(1000), Num(250), Null}))

\* A record as the provider sends it, every field well-formed.
FullFields ==
    "id" :> Str("id1") @@ "alias" :> Str("al1") @@ "rating" :> Num(450)
    @@ "review_count" :> Num(1000) @@ "price" :> Str("$$")
    @@ "distance" :> Num(160934) @@ "votes" :> Num(500)
    @@ "categories" :> List(<<Dict("title" :> Str("T1") @@ "alias" :> Str("t1"))>>)
    @@ "contextual_info" :> Dict("photos" :> List(<<Dict("original_url" :> Str("u2"))>>))
    @@ "photos" :> List(<<Str("u3")>>)
    @@ "coordinates" :> Dict("latitude" :> Num(3777) @@ "longitude" :> Num(-12241))
    @@ "location" :> Dict("city" :> Str("SF")) @@ "phone" :> Str("+1")
    @@ "url" :> Str("http://y")

NameFields == Opt("name", {Str(n) : n \in Names} \cup {Null})
VotesFields == {NoKeys, "votes" :> Num(500) @@ "rating" :> Num(450)}

RawRecords ==
    {Dict(n @@ f) : n \in NameFields, f \in ImageFields \cup {FullFields}}
        \cup {Dict(n @@ f @@ x) :
                n \in NameFields,
                f \in IdFields \cup CategoryFields \cup CoordinateFields
                        \cup DistanceFields \cup OtherFields,
                x \in VotesFields}

\* What _parse_business may be handed: records, and elements that are no dict.
ParseInputs == RawRecords \cup {Null, Str("name"), Num(100), List(<<Str("name")>>)}

\* Records whose id may come from id, alias or the hash of the name.
IdRecords == {Dict(n @@ f) : n \in Opt("name", {Str(m) : m \in Names}), f \in IdFields}

(***************************************************************************)
(* State machine                                                           *)
(***************************************************************************)
NoTokens == [k \in {} |-> [user_id |-> "u"]]
NoResponse == [op |-> "none", status |-> 0, state |-> "", known |-> FALSE,
               exchange |-> "none", user_id |-> ""]
NoFlows == [k \in {} |-> [user_id |-> "u", callbacks |-> 0, accepts |-> 0,
                          failed |-> FALSE]]

AuthInit ==
    /\ oauth_states = NoTokens
    /\ issued = {}
    /\ flows = NoFlows
    /\ response = NoResponse
    /\ exchangeCalls = 0
    /\ nreq = 0

NoArgs == [query |-> "", latitude |-> Null, longitude |-> Null, locale |-> "",
           chat_id |-> Null]
NoReply == [kind |-> "none", data |-> Null]

ChatInit ==
    /\ chatPc = "idle"
    /\ chatArgs = NoArgs
    /\ payload = Null
    /\ posts = 0
    /\ reply = NoReply
    /\ chatResult = Null
    /\ nchat = 0

MaxTasks == 2         \* callback requests in flight at once
TaskIds == 1..MaxTasks
NoTask == [pc |-> "idle", state |-> "", passed |-> FALSE, exchanged |-> FALSE,
           status |-> 0]

LoopInit ==
    /\ tasks = [t \in TaskIds |-> NoTask]
    /\ running = 0

NoExtraction == [raised |-> FALSE, businesses |-> <<>>, calls |-> <<>>]

\* The id of the parsed Business came from the hash of the name.
HashDerived(e, result) ==
    /\ Len(result) = 1
    /\ ~HasKey(e, "id")
    /\ ~HasKey(e, "alias")

\* One call of yelp_service._parse_business(entity_data).
ParseCall ==
    /\ pc = "call"
    /\ parsed' = ParseBusiness(entity_data, hashOf)
    /\ derived' = IF HashDerived(entity_data, parsed')
                  THEN derived \cup {[name |-> parsed'[1].name.s, id |-> parsed'[1].id.s]}
                  ELSE derived
    /\ entity_data' = RecordAfterParse(entity_data, hashOf)
    /\ pc' = "ret"
    /\ UNCHANGED <<hashOf, data, extracted>>
    /\ UNCHANGED authVars
    /\ UNCHANGED chatVars
    /\ UNCHANGED loopVars

InitParse ==
    /\ pc = "call"
    /\ hashOf \in HashFunctions
    /\ entity_data \in ParseInputs
    /\ parsed = <<>>
    /\ data = Dict(NoKeys)
    /\ extracted = NoExtraction
    /\ derived = {}
    /\ AuthInit
    /\ ChatInit
    /\ LoopInit

NextParse == ParseCall

SpecParse == InitParse /\ [][NextParse]_vars

(***************************************************************************)
(* Responses handed to _extract_businesses                                 *)
(***************************************************************************)
MaxRecords == 3       \* most raw records in one response

Nameless == Dict("rating" :> Num(450))
NamedA == Dict("name" :> Str("A"))
NamedB == Dict("name" :> Str("B") @@ "id" :> Str("id1"))
BatchRecords == {Nameless, NamedA, NamedB}

\* A record of its own, also holding a nested sequence.
NamedNested ==
    Dict("name" :> Str("B") @@ "id" :> Str("id2") @@ "businesses" :> List(<<NamedA>>))

\* Entities that hold c records: a nested sequence of c and, for one record,
\* a direct record, a record with a nested sequence, or a null `businesses`.
EntitiesOf(c) ==
    {Dict("businesses" :> List(q)) : q \in [1..c -> BatchRecords]}
        \cup (IF c = 1
              THEN BatchRecords \cup {NamedNested, Dict("businesses" :> Null)}
              ELSE {})

RECURSIVE EntityLists(_)
\* The lists of entities that hold at most n records.
EntityLists(n) ==
    {<<>>} \cup UNION {{<<e>> \o rest : e \in EntitiesOf(c), rest \in EntityLists(n - c)}
                          : c \in 1..n}

\* Entities of other shapes, each drawn between two well-formed records.
OddEntities ==
    {Dict("businesses" :> List(<<>>)),
     Dict("businesses" :> Num(700)),
     Dict("businesses" :> Str("ab")),
     Dict("businesses" :> Dict("name" :> Str("A"))),
     Dict("businesses" :> List(<<Null, NamedA, Str("name")>>)),
     Str("name"), Null, List(<<NamedA>>)}
OddLists ==
    {<<x, odd, y>> : x \in {NamedA, NamedB}, y \in {NamedA, NamedB}, odd \in OddEntities}

MapEntities ==
    {Map(<<>>),
     Map(<<[k |-> "e1", v |-> NamedA], [k |-> "e2", v |-> Nameless],
           [k |-> "e3", v |-> NamedB]>>),
     Map(<<[k |-> "e3", v |-> NamedB], [k |-> "e2", v |-> Str("x")],
           [k |-> "e1", v |-> NamedA]>>),
     Map(<<[k |-> "e1", v |-> Dict("businesses" :> List(<<NamedA>>))],
           [k |-> "e2", v |-> NamedNested], [k |-> "e3", v |-> Null]>>),
     Map(<<[k |-> "e2", v |-> Dict("name" :> Null)], [k |-> "e1", v |-> NamedB],
           [k |-> "e3", v |-> List(<<NamedA>>)]>>)}

OtherEntities == {Null, Num(700), Num(0), Str("none"), Str(""), Bool(TRUE), Bool(FALSE)}

Responses ==
    {Dict(NoKeys), Dict("chat_id" :> Str("c1"))}
        \cup {Dict("entities" :> e) : e \in MapEntities \cup OtherEntities}
        \cup {Dict("entities" :> List(q)) : q \in EntityLists(MaxRecords) \cup OddLists}

\* One call of yelp_service._extract_businesses(data).
ExtractCall ==
    /\ pc = "call"
    /\ extracted' = ExtractBusinesses(data, hashOf)
    /\ data' = ResponseAfterExtract(data, hashOf)
    /\ pc' = "ret"
    /\ UNCHANGED <<hashOf, entity_data, parsed, derived>>
    /\ UNCHANGED authVars
    /\ UNCHANGED chatVars
    /\ UNCHANGED loopVars

InitExtract ==
    /\ pc = "call"
    /\ hashOf \in HashFunctions
    /\ entity_data = Null
    /\ parsed = <<>>
    /\ data \in Responses
    /\ extracted = NoExtraction
    /\ derived = {}
    /\ AuthInit
    /\ ChatInit
    /\ LoopInit

NextExtract == ExtractCall

SpecExtract == InitExtract /\ [][NextExtract]_vars

(***************************************************************************)
(* Either function called once on an input of its own                      *)
(***************************************************************************)
InitNorm ==
    /\ pc = "call"
    /\ hashOf \in HashFunctions
    /\ \/ entity_data \in ParseInputs /\ data = Dict(NoKeys)
       \/ entity_data = Null /\ data \in Responses
    /\ parsed = <<>>
    /\ extracted = NoExtraction
    /\ derived = {}
    /\ AuthInit
    /\ ChatInit
    /\ LoopInit

NextNorm == ParseCall \/ ExtractCall

SpecNorm == InitNorm /\ [][NextNorm]_vars

(***************************************************************************)
(* Runs of the process: ids derived from the hash of the name              *)
(***************************************************************************)

\* The next call of _parse_business in the same process.
NextRecord ==
    /\ pc = "ret"
    /\ entity_data' \in IdRecords
    /\ pc' = "call"
    /\ UNCHANGED <<hashOf, parsed, data, extracted, derived>>
    /\ UNCHANGED authVars
    /\ UNCHANGED chatVars
    /\ UNCHANGED loopVars

\* The process is started again (main.py:422-431): the interpreter salts str
\* hashes anew and everything in memory is lost.  `derived` is what clients
\* have seen, and stays.
Restart ==
    /\ pc = "ret"
    /\ hashOf' \in HashFunctions
    /\ parsed' = <<>>
    /\ UNCHANGED <<pc, entity_data, data, extracted, derived>>
    /\ UNCHANGED authVars
    /\ UNCHANGED chatVars
    /\ UNCHANGED loopVars

InitId ==
    /\ pc = "call"
    /\ hashOf \in HashFunctions
    /\ entity_data \in IdRecords
    /\ parsed = <<>>
    /\ data = Dict(NoKeys)
    /\ extracted = NoExtraction
    /\ derived = {}
    /\ AuthInit
    /\ ChatInit
    /\ LoopInit

NextId == ParseCall \/ NextRecord \/ Restart

SpecId == InitId /\ [][NextId]_vars

(***************************************************************************)
(* Google-calendar OAuth endpoints (main.py:305-378)                       *)
(***************************************************************************)
MaxTokens == 2        \* state tokens secrets.token_urlsafe may still return
MaxRequests == 4      \* calendar requests handled in one run

Tokens == {"s" \o ToString(i) : i \in 1..MaxTokens}
\* The `state` a callback may bear: any token, or one never issued.
StateParams == Tokens \cup {"forged"}
Users == {"alice", "bob"}

Without(store, state) == [k \in DOMAIN store \ {state} |-> store[k]]

\* calendar_auth_callback with the exchange made before the state is verified.
CallbackOutcomeExchangeFirst(store, calls, state, exchangeOk) ==
    IF ~exchangeOk
    THEN [store |-> store, calls |-> calls + 1, status |-> 500,
          known |-> state \in DOMAIN store, exchange |-> "raised", user_id |-> ""]
    ELSE IF state \notin DOMAIN store
    THEN [store |-> store, calls |-> calls + 1, status |-> 500,
          known |-> FALSE, exchange |-> "ok", user_id |-> ""]
    ELSE [store |-> Without(store, state), calls |-> calls + 1, status |-> 200,
          known |-> TRUE, exchange |-> "ok", user_id |-> store[state].user_id]

\* calendar_auth_callback reading oauth_states[state] where line 361 pops it.
CallbackOutcomeNoPop(store, calls, state, exchangeOk) ==
    IF state \notin DOMAIN store
    THEN [store |-> store, calls |-> calls, status |-> 500,
          known |-> FALSE, exchange |-> "none", user_id |-> ""]
    ELSE IF exchangeOk
    THEN [store |-> store, calls |-> calls + 1, status |-> 200,
          known |-> TRUE, exchange |-> "ok", user_id |-> store[state].user_id]
    ELSE [store |-> store, calls |-> calls + 1, status |-> 500,
          known |-> TRUE, exchange |-> "raised", user_id |-> ""]

\* calendar_auth_callback removing the state only once the exchange has
\* succeeded.
CallbackOutcomePopOnSuccess(store, calls, state, exchangeOk) ==
    IF state \notin DOMAIN store
    THEN [store |-> store, calls |-> calls, status |-> 500,
          known |-> FALSE, exchange |-> "none", user_id |-> ""]
    ELSE IF exchangeOk
    THEN [store |-> Without(store, state), calls |-> calls + 1, status |-> 200,
          known |-> TRUE, exchange |-> "ok", user_id |-> store[state].user_id]
    ELSE [store |-> store, calls |-> calls + 1, status |-> 500,
          known |-> TRUE, exchange |-> "raised", user_id |-> ""]

\* main.py:356-378.  The HTTPException(400) of line 359 is raised inside the
\* try block; `except Exception` at line 376 catches it, HTTPException being
\* an Exception, and raises HTTPException(500) in its place.  A known state is
\* popped before the exchange, which returns the tokens or raises.
CallbackOutcome(store, calls, state, exchangeOk) ==
    IF state \notin DOMAIN store
    THEN [store |-> store, calls |-> calls, status |-> 500,
          known |-> FALSE, exchange |-> "none", user_id |-> ""]
    ELSE IF exchangeOk
    THEN [store |-> Without(store, state), calls |-> calls + 1, status |-> 200,
          known |-> TRUE, exchange |-> "ok", user_id |-> store[state].user_id]
    ELSE [store |-> Without(store, state), calls |-> calls + 1, status |-> 500,
          known |-> TRUE, exchange |-> "raised", user_id |-> ""]

\* GET /api/calendar/auth/start (main.py:310-338).  The token is random; it is
\* taken to be one never returned before.  The state is stored before the
\* authorization URL is built, which succeeds or raises.
StartCalendarAuth(user_id, urlOk) ==
    /\ nreq < MaxRequests
    /\ \E state \in Tokens \ issued :
          /\ oauth_states' = (state :> [user_id |-> user_id]) @@ oauth_states
          /\ issued' = issued \cup {state}
          /\ flows' = (state :> [user_id |-> user_id, callbacks |-> 0, accepts |-> 0,
                                    failed |-> FALSE])
                          @@ flows
          /\ response' = [op |-> "start", status |-> IF urlOk THEN 200 ELSE 500,
                          state |-> state, known |-> FALSE, exchange |-> "none",
                          user_id |-> user_id]
    /\ nreq' = nreq + 1
    /\ UNCHANGED exchangeCalls
    /\ UNCHANGED normVars
    /\ UNCHANGED chatVars
    /\ UNCHANGED loopVars

\* GET /api/calendar/auth/callback (main.py:341-378).  The handler has no
\* await: it runs from start to end without another request in between.
CalendarAuthCallback(state, exchangeOk) ==
    /\ nreq < MaxRequests
    /\ LET out == CallbackOutcome(oauth_states, exchangeCalls, state, exchangeOk) IN
          /\ oauth_states' = out.store
          /\ exchangeCalls' = out.calls
          /\ response' = [op |-> "callback", status |-> out.status, state |-> state,
                          known |-> out.known, exchange |-> out.exchange,
                          user_id |-> out.user_id]
          /\ flows' = IF state \in DOMAIN flows
                      THEN [flows EXCEPT ![state].callbacks = @ + 1,
                                         ![state].accepts = IF out.known THEN @ + 1 ELSE @,
                                         ![state].failed = @ \/ out.exchange = "raised"]
                      ELSE flows
    /\ nreq' = nreq + 1
    /\ UNCHANGED issued
    /\ UNCHANGED normVars
    /\ UNCHANGED chatVars
    /\ UNCHANGED loopVars

InitAuth ==
    /\ pc = "idle"
    /\ hashOf \in HashFunctions
    /\ entity_data = Null
    /\ parsed = <<>>
    /\ data = Dict(NoKeys)
    /\ extracted = NoExtraction
    /\ derived = {}
    /\ AuthInit
    /\ ChatInit
    /\ LoopInit

NextAuth ==
    \/ \E user_id \in Users, urlOk \in BOOLEAN : StartCalendarAuth(user_id, urlOk)
    \/ \E state \in StateParams, exchangeOk \in BOOLEAN :
          CalendarAuthCallback(state, exchangeOk)

SpecAuth == InitAuth /\ [][NextAuth]_vars

(***************************************************************************)
(* Callback requests handled concurrently by the event loop                *)
(* (main.py:341-378: an `async def` handler runs as a task of the single   *)
(* event loop and gives the loop up only at an await or when it ends)      *)
(***************************************************************************)

\* Suspends with an await put between the state check and the pop.
SuspendsAfterCheck(step) == step = "check"

\* The handler suspends after the given step.  main.py:356-378 holds no
\* await, async with or async for; exchange_code_for_token is a plain def
\* called synchronously (calendar_service.py:62).
Suspends(step) == FALSE

\* The event loop may run a step of task t: it is running t already, or it is
\* running nothing and picks t.
CanRun(t) == running = t \/ running = 0

\* The loop after a step of task t.
LoopAfter(t, step) == IF Suspends(step) THEN 0 ELSE t

\* GET /api/calendar/auth/start handled while the loop runs no other task
\* (main.py:310-338, no await either).
LoopStart(user_id) ==
    /\ running = 0
    /\ StartCalendarAuth(user_id, TRUE)

\* A callback request bearing `state` arrives and becomes a task.
CbArrive(t, state) ==
    /\ tasks[t].pc = "idle"
    /\ tasks' = [tasks EXCEPT ![t].pc = "check", ![t].state = state]
    /\ UNCHANGED running
    /\ UNCHANGED normVars
    /\ UNCHANGED authVars
    /\ UNCHANGED chatVars

\* main.py:358-359: `if state not in oauth_states: raise HTTPException(400)`.
CbCheck(t) ==
    /\ tasks[t].pc = "check"
    /\ CanRun(t)
    /\ tasks' = IF tasks[t].state \in DOMAIN oauth_states
                THEN [tasks EXCEPT ![t].pc = "pop", ![t].passed = TRUE]
                ELSE [tasks EXCEPT ![t].pc = "raise"]
    /\ running' = LoopAfter(t, "check")
    /\ UNCHANGED normVars
    /\ UNCHANGED authVars
    /\ UNCHANGED chatVars

\* main.py:361: `user_data = oauth_states.pop(state)`, a KeyError when the
\* state is no longer there.
CbPop(t) ==
    /\ tasks[t].pc = "pop"
    /\ CanRun(t)
    /\ IF tasks[t].state \in DOMAIN oauth_states
       THEN /\ oauth_states' = Without(oauth_states, tasks[t].state)
            /\ tasks' = [tasks EXCEPT ![t].pc = "exchange"]
       ELSE /\ tasks' = [tasks EXCEPT ![t].pc = "raise"]
            /\ UNCHANGED oauth_states
    /\ running' = LoopAfter(t, "pop")
    /\ UNCHANGED <<issued, flows, response, exchangeCalls, nreq>>
    /\ UNCHANGED normVars
    /\ UNCHANGED chatVars

\* main.py:364: `tokens = calendar_service.exchange_code_for_token(code)`.
CbExchange(t, exchangeOk) ==
    /\ tasks[t].pc = "exchange"
    /\ CanRun(t)
    /\ exchangeCalls' = exchangeCalls + 1
    /\ tasks' = [tasks EXCEPT ![t].pc = IF exchangeOk THEN "return" ELSE "raise",
                              ![t].exchanged = TRUE]
    /\ running' = LoopAfter(t, "exchange")
    /\ UNCHANGED <<oauth_states, issued, flows, response, nreq>>
    /\ UNCHANGED normVars
    /\ UNCHANGED chatVars

\* main.py:370-378: the handler ends, with the result or with the
\* HTTPException(500) of its except clause, and the loop is free.
CbEnd(t) ==
    /\ tasks[t].pc \in {"return", "raise"}
    /\ CanRun(t)
    /\ tasks' = [tasks EXCEPT ![t].pc = "done",
                              ![t].status = IF tasks[t].pc = "return" THEN 200 ELSE 500]
    /\ running' = 0
    /\ UNCHANGED normVars
    /\ UNCHANGED authVars
    /\ UNCHANGED chatVars

InitLoop ==
    /\ pc = "idle"
    /\ hashOf = [n \in Names |-> 42]
    /\ entity_data = Null
    /\ parsed = <<>>
    /\ data = Dict(NoKeys)
    /\ extracted = NoExtraction
    /\ derived = {}
    /\ AuthInit
    /\ ChatInit
    /\ LoopInit

NextLoop ==
    \/ \E user_id \in Users : LoopStart(user_id)
    \/ \E t \in TaskIds, state \in StateParams : CbArrive(t, state)
    \/ \E t \in TaskIds : CbCheck(t)
    \/ \E t \in TaskIds : CbPop(t)
    \/ \E t \in TaskIds, exchangeOk \in BOOLEAN : CbExchange(t, exchangeOk)
    \/ \E t \in TaskIds : CbEnd(t)

SpecLoop == InitLoop /\ [][NextLoop]_vars

(***************************************************************************)
(* YelpAIService.chat (yelp_service.py:18-107)                             *)
(***************************************************************************)
MaxChats == 2         \* most chat invocations in one run

\* What chat is called with.  A coordinate is None or a float, 0 included;
\* locale is a str, possibly empty; chat_id is None or a str, possibly empty.
ChatArgs ==
    [query : {"tacos"},
     latitude : {Null, Num(0), Num(3777)},
     longitude : {Null, Num(0), Num(-12241)},
     locale : {"en_US", ""},
     chat_id : {Null, Str(""), Str("c1")}]

\* PayloadOf with the two tests exchanged: the coordinates tested for
\* truthiness, the chat_id for `is not None`.
PayloadOfTruthy(a) ==
    Dict(("query" :> Str(a.query))
         @@ (IF Truthy(a.latitude) /\ Truthy(a.longitude)
             THEN "user_context" :> Dict("locale" :> Str(a.locale)
                                         @@ "latitude" :> a.latitude
                                         @@ "longitude" :> a.longitude)
             ELSE IF a.locale # ""
             THEN "user_context" :> Dict("locale" :> Str(a.locale))
             ELSE NoKeys)
         @@ (IF a.chat_id # Null THEN "chat_id" :> a.chat_id ELSE NoKeys))

\* yelp_service.py:44-62: the payload.
PayloadOf(a) ==
    Dict(("query" :> Str(a.query))
         @@ (IF a.latitude # Null /\ a.longitude # Null
             THEN "user_context" :> Dict("locale" :> Str(a.locale)
                                         @@ "latitude" :> a.latitude
                                         @@ "longitude" :> a.longitude)
             ELSE IF a.locale # ""
             THEN "user_context" :> Dict("locale" :> Str(a.locale))
             ELSE NoKeys)
         @@ (IF Truthy(a.chat_id) THEN "chat_id" :> a.chat_id ELSE NoKeys))

\* Bodies of a 2xx reply: a full one, an empty one, one whose `response` is
\* null, one whose extraction raises, and one that is no JSON object.
ChatData ==
    {Dict("response" :> Dict("text" :> Str("hi")) @@ "chat_id" :> Str("c2")
          @@ "entities" :> List(<<Dict("businesses" :> List(<<NamedA, Nameless>>))>>)
          @@ "types" :> List(<<Str("business_search")>>)),
     Dict(NoKeys),
     Dict("response" :> Null),
     Dict("entities" :> List(<<NamedA, Dict("businesses" :> Null)>>)),
     List(<<>>)}

\* The provider's answers to one post: a 2xx with a body, a status that
\* raise_for_status turns into HTTPStatusError, or a transport failure
\* (RequestError: no connection, or the 30 s timeout).
Replies ==
    {[kind |-> "ok", data |-> d] : d \in ChatData}
        \cup {[kind |-> "status", data |-> Null], [kind |-> "transport", data |-> Null]}

\* ChatResponse(...) (yelp_service.py:91-97, models.py:50-56) on the values
\* chat computed from the body d: an exception of _extract_businesses has
\* ended chat before; a field the model refuses raises.
BuildChatResponse(d, response_text, chat_id, businesses, types) ==
    IF businesses.raised THEN Raise
    ELSE IF ~IsStr(response_text) \/ ~IsOptStr(chat_id) THEN Raise
    ELSE IF ~(types.t = "null"
                \/ (types.t = "list"
                      /\ \A i \in 1..Len(types.items) : IsStr(types.items[i])))
    THEN Raise
    ELSE [t |-> "ChatResponse", response_text |-> response_text,
          chat_id |-> chat_id, businesses |-> businesses.businesses,
          types |-> types, raw_response |-> d]

\* yelp_service.py:74-97: the ChatResponse built from the body of a 2xx
\* reply, or Raise.  data.get on a body that is no dict and .get on a
\* `response` that is no dict raise.
ChatResponseOf(d, h) ==
    IF d.t # "dict" THEN Raise
    ELSE IF Get(d, "response", Dict(NoKeys)).t # "dict" THEN Raise
    ELSE BuildChatResponse(d, Get(Get(d, "response", Dict(NoKeys)), "text", Str("")),
                           Get(d, "chat_id", Null), ExtractBusinesses(d, h),
                           Get(d, "types", List(<<>>)))

\* How chat ends on the outcome of lines 74-97, n posts having been made: it
\* returns the ChatResponse, or the exception leaves through line 105-107.
ChatEnd(result, n) ==
    [raised |-> result = Raise,
     result |-> IF result = Raise THEN Null ELSE result,
     posts |-> n]

\* ChatOutcome posting once more after a transport failure before giving up.
ChatOutcomeRetry(r, n, h) ==
    IF r.kind = "transport" THEN [raised |-> TRUE, result |-> Null, posts |-> n + 1]
    ELSE IF r.kind = "status" THEN [raised |-> TRUE, result |-> Null, posts |-> n]
    ELSE ChatEnd(ChatResponseOf(r.data, h), n)

\* yelp_service.py:73-107: what chat does with the reply to its post, n posts
\* having been made.  HTTPStatusError and RequestError are re-raised as
\* Exception, any other exception as it is; no handler posts again.
ChatOutcome(r, n, h) ==
    IF r.kind \in {"status", "transport"}
    THEN [raised |-> TRUE, result |-> Null, posts |-> n]
    ELSE ChatEnd(ChatResponseOf(r.data, h), n)

\* chat(...) is called and runs to its await: the payload is built and posted.
ChatSend(a) ==
    /\ chatPc # "await"
    /\ nchat < MaxChats
    /\ chatArgs' = a
    /\ payload' = PayloadOf(a)
    /\ posts' = 1
    /\ reply' = NoReply
    /\ chatResult' = Null
    /\ chatPc' = "await"
    /\ nchat' = nchat + 1
    /\ UNCHANGED normVars
    /\ UNCHANGED authVars
    /\ UNCHANGED loopVars

\* The post completes and chat runs to its end.
ChatReceive(r) ==
    /\ chatPc = "await"
    /\ \E out \in {ChatOutcome(r, posts, hashOf)} :
          /\ chatPc' = IF out.raised THEN "raised" ELSE "ret"
          /\ chatResult' = out.result
          /\ posts' = out.posts
    /\ reply' = r
    /\ UNCHANGED <<chatArgs, payload, nchat>>
    /\ UNCHANGED normVars
    /\ UNCHANGED authVars
    /\ UNCHANGED loopVars

InitChat ==
    /\ pc = "idle"
    /\ hashOf \in HashFunctions
    /\ entity_data = Null
    /\ parsed = <<>>
    /\ data = Dict(NoKeys)
    /\ extracted = NoExtraction
    /\ derived = {}
    /\ AuthInit
    /\ ChatInit
    /\ LoopInit

NextChat ==
    \/ \E a \in ChatArgs : ChatSend(a)
    \/ \E r \in Replies : ChatReceive(r)

SpecChat == InitChat /\ [][NextChat]_vars

(***************************************************************************)
(* Properties of the normalizer and the extractor                          *)
(***************************************************************************)
RECURSIVE Flatten(_)
Flatten(qs) == IF qs = <<>> THEN <<>> ELSE Head(qs) \o Flatten(Tail(qs))

Returned == pc = "ret"
Accepted == pc = "ret" /\ entity_data.t = "dict" /\ Len(parsed) = 1

NamelessRecord(v) == v.t = "dict" /\ ~HasKey(v, "name")
CallOfNamed(c) == ~NamelessRecord(c.arg)
ResultsOf(cs) == Flatten([i \in 1..Len(cs) |-> cs[i].result])

\* C1: a record without a `name` key yields no Business, and a batch holding
\* such records yields exactly the Businesses of its other records, in their
\* order, with nothing standing in for the rejected ones.
C1_NamelessOmitted ==
    (Returned /\ ~extracted.raised) =>
        /\ \A i \in 1..Len(extracted.calls) :
              NamelessRecord(extracted.calls[i].arg)
                  => extracted.calls[i].result = <<>>
        /\ extracted.businesses = ResultsOf(SelectSeq(extracted.calls, CallOfNamed))

C1_Witness ==
    /\ Returned /\ ~extracted.raised
    /\ Len(extracted.calls) = 3
    /\ NamelessRecord(extracted.calls[2].arg)
    /\ Len(extracted.businesses) = 2
    /\ extracted.businesses[1].name = Str("B")
    /\ extracted.businesses[2].name = Str("A")

IsNestedEntity(e) == e.t = "dict" /\ HasKey(e, "businesses")
IsDirectEntity(e) == e.t = "dict" /\ ~HasKey(e, "businesses") /\ HasKey(e, "name")
\* The entities of a list-shape response whose `businesses` values are lists.
ListShape ==
    /\ HasKey(data, "entities")
    /\ data.d["entities"].t = "list"
    /\ \A i \in 1..Len(data.d["entities"].items) :
          IsNestedEntity(data.d["entities"].items[i])
              => data.d["entities"].items[i].d["businesses"].t = "list"
\* The records of a list of entities in encounter order.
RecordsInOrder(entities) ==
    Flatten([i \in 1..Len(entities) |->
                IF IsNestedEntity(entities[i]) THEN entities[i].d["businesses"].items
                ELSE IF IsDirectEntity(entities[i]) THEN <<entities[i]>>
                ELSE <<>>])

\* C2: on a list of entities the extractor normalizes, in encounter order, the
\* nested elements of each entity that has `businesses` (and not that entity)
\* and each other entity that has `name`; the output is the concatenation of
\* the results.
C2_EncounterOrder ==
    (Returned /\ ListShape) =>
        /\ ~extracted.raised
        /\ [i \in 1..Len(extracted.calls) |-> extracted.calls[i].arg]
              = RecordsInOrder(data.d["entities"].items)
        /\ extracted.businesses = ResultsOf(extracted.calls)

C2_Witness ==
    /\ Returned /\ ListShape
    /\ Len(data.d["entities"].items) = 2
    /\ IsNestedEntity(data.d["entities"].items[1])
    /\ HasKey(data.d["entities"].items[1], "name")
    /\ IsDirectEntity(data.d["entities"].items[2])
    /\ Len(extracted.businesses) = 2
    /\ extracted.businesses[1].name = Str("A")
    /\ extracted.businesses[2].name = Str("B")

\* `entities` is missing, or is neither a list nor a mapping.
OtherShape ==
    ~HasKey(data, "entities") \/ data.d["entities"].t \notin {"list", "map"}

\* C3: when `entities` is missing, null, a scalar or any other structure that
\* is neither list nor mapping, the extractor returns the empty sequence and
\* does not raise.
C3_OtherShapeEmpty ==
    (Returned /\ OtherShape) => (~extracted.raised /\ extracted.businesses = <<>>)

C3_Witness ==
    /\ Returned
    /\ HasKey(data, "entities")
    /\ data.d["entities"] = Num(700)
    /\ ~extracted.raised
    /\ extracted.businesses = <<>>

\* C4: when the raw record has the key `image_url`, the image is that key's
\* value, null included, whatever the photos fields hold.
C4_ImageUrlKeyWins ==
    (Accepted /\ HasKey(entity_data, "image_url"))
        => parsed[1].image = entity_data.d["image_url"]

C4_Witness ==
    /\ Accepted
    /\ HasKey(entity_data, "image_url") /\ entity_data.d["image_url"] = Null
    /\ HasKey(entity_data, "photos") /\ entity_data.d["photos"] = List(<<Str("u3")>>)
    /\ parsed[1].image = Null

\* The value photos[0] yields, null when there is none.
PhotoValue(photos) ==
    IF photos.t = "list" /\ Len(photos.items) > 0
    THEN (IF photos.items[1].t = "dict"
          THEN Get(photos.items[1], "original_url", Null)
          ELSE photos.items[1])
    ELSE Null
ContextualPhoto(e) ==
    IF HasKey(e, "contextual_info") /\ e.d["contextual_info"].t = "dict"
       /\ HasKey(e.d["contextual_info"], "photos")
    THEN PhotoValue(e.d["contextual_info"].d["photos"])
    ELSE Null
TopLevelPhoto(e) == IF HasKey(e, "photos") THEN PhotoValue(e.d["photos"]) ELSE Null

\* C5: without an `image_url` key the image is the first of
\* contextual_info.photos[0] and top-level photos[0] that yields a value, and
\* is absent only when neither does.
C5_FirstPhotoThatYields ==
    (Accepted /\ ~HasKey(entity_data, "image_url"))
        => parsed[1].image = (IF ContextualPhoto(entity_data) # Null
                              THEN ContextualPhoto(entity_data)
                              ELSE TopLevelPhoto(entity_data))

\* The rendering "<whole>.<tenth> mi" of t tenths of a mile.
MilesText(neg, t) ==
    (IF neg THEN "-" ELSE "") \o ToString(t \div 10) \o "." \o ToString(t % 10) \o " mi"
\* t is the number of tenths of a mile nearest to a hundredths of a meter:
\* | a * 621371 / 10^10 - t | <= 1/2, compared after division by 1000.
NearestTenth(a, t) ==
    LET scaled == a * 621 + ((a * 371) \div 1000)
    IN  t * 10000000 - 5000000 <= scaled /\ scaled < t * 10000000 + 5000000
\* The raw distance in hundredths of a meter; True counts as 1.
RawMeters(v) == IF v.t = "bool" THEN 100 ELSE v.h

\* C6: the distance of an accepted record is present exactly when the raw
\* `distance` is present and truthy, and then is meters * 0.000621371 with
\* one decimal place followed by " mi"; 1609.34 gives "1.0 mi".
C6_Distance ==
    Accepted =>
        LET present == HasKey(entity_data, "distance")
                          /\ Truthy(entity_data.d["distance"])
        IN  /\ (parsed[1].distance # Null) <=> present
            /\ present =>
                 LET h == RawMeters(entity_data.d["distance"]) IN
                 \E t \in 0..200 :
                     /\ NearestTenth(IF h < 0 THEN 0 - h ELSE h, t)
                     /\ parsed[1].distance = Str(MilesText(h < 0, t))
            /\ (present /\ entity_data.d["distance"] = Num(160934))
                 => parsed[1].distance = Str("1.0 mi")

C6_Witness ==
    /\ Accepted
    /\ HasKey(entity_data, "distance")
    /\ entity_data.d["distance"] = Num(160934)
    /\ parsed[1].distance = Str("1.0 mi")

\* C8: every Business _parse_business returns has votes = 0, whatever the raw
\* record holds.
C8_VotesZero ==
    (Returned /\ Len(parsed) = 1) => parsed[1].votes = Num(0)

C8_Witness ==
    /\ Accepted
    /\ HasKey(entity_data, "votes") /\ entity_data.d["votes"] = Num(500)
    /\ parsed[1].votes = Num(0)

\* C7: the id derived for a record with neither `id` nor `alias` is a function
\* of its name alone: two normalizations of records of the same name give the
\* same id, also in different runs of the program.
C7_IdFunctionOfName ==
    \A a \in derived : \A b \in derived : a.name = b.name => a.id = b.id

(***************************************************************************)
(* Properties of the OAuth callback                                        *)
(***************************************************************************)
\* The last request was a callback whose state was not pending.
UnknownStateCallback == response.op = "callback" /\ ~response.known

\* C9: a callback whose state is not a key of the pending-state store is
\* answered with status 400.
C9_UnknownStateIs400 == UnknownStateCallback => response.status = 400

\* C10: a callback whose state is not in the pending-state store does not call
\* exchange_code_for_token and leaves the store as it was.
C10_UnknownStateNoExchange ==
    [][(nreq' = nreq + 1 /\ response'.op = "callback"
            /\ response'.state \notin DOMAIN oauth_states)
          => (exchangeCalls' = exchangeCalls /\ oauth_states' = oauth_states)]_vars

C10_Witness ==
    /\ UnknownStateCallback
    /\ response.state \in issued
    /\ DOMAIN oauth_states # {}
    /\ exchangeCalls = 1

\* The step is a callback bearing the issued token s.
CallbackBearing(s) ==
    /\ nreq' = nreq + 1
    /\ response'.op = "callback"
    /\ response'.state = s
    /\ s \in issued

\* Every callback after the first that bears s is rejected as an unknown state.
LaterCallbacksRejected(s) ==
    (CallbackBearing(s) /\ flows[s].callbacks > 0)
        => /\ ~response'.known
           /\ response'.status # 200
           /\ flows'[s].accepts = flows[s].accepts
           /\ oauth_states' = oauth_states

\* C11 as claimed: each issued state token is accepted by at most one
\* callback; the first callback bearing it removes it from the store and
\* returns the user_id given to the start request that issued it; every later
\* callback bearing it is rejected as an unknown state.
C11_FirstCallbackReturnsUser ==
    [][\A s \in Tokens :
          /\ (CallbackBearing(s) /\ flows[s].callbacks = 0)
                => /\ s \notin DOMAIN oauth_states'
                   /\ response'.status = 200
                   /\ response'.user_id = flows[s].user_id
          /\ LaterCallbacksRejected(s)]_vars

\* C11 as amended: each issued state token is accepted by at most one
\* callback; the first callback bearing it removes it from the store and, when
\* the token exchange succeeds, returns the user_id given to the start request
\* that issued it (when the exchange raises it answers 500); every later
\* callback bearing it is rejected as an unknown state.
C11_SingleUse ==
    [][\A s \in Tokens :
          /\ (CallbackBearing(s) /\ flows[s].callbacks = 0)
                => /\ s \in DOMAIN oauth_states
                   /\ s \notin DOMAIN oauth_states'
                   /\ flows'[s].accepts = 1
                   /\ response'.exchange = "ok"
                        => (response'.status = 200
                              /\ response'.user_id = flows[s].user_id)
                   /\ response'.exchange = "raised" => response'.status = 500
                   /\ response'.exchange # "none"
          /\ LaterCallbacksRejected(s)
          /\ s \in DOMAIN flows' => flows'[s].accepts <= 1]_vars

C11_Witness ==
    /\ response.op = "callback"
    /\ response.state \in issued
    /\ ~response.known
    /\ flows[response.state].callbacks = 3
    /\ flows[response.state].accepts = 1

\* C12: for every accepted record, the Business id is the raw `id` if the
\* `id` key is present; otherwise the raw `alias` if the `alias` key is
\* present; otherwise the string form of the hash of `name`.
C12_IdSource ==
    Accepted =>
        parsed[1].id =
            IF HasKey(entity_data, "id") THEN entity_data.d["id"]
            ELSE IF HasKey(entity_data, "alias") THEN entity_data.d["alias"]
            ELSE Str(ToString(hashOf[entity_data.d["name"].s]))

C12_Witness ==
    /\ Accepted
    /\ ~HasKey(entity_data, "id")
    /\ HasKey(entity_data, "alias")
    /\ parsed[1].id = Str("al1")

\* C13: every Business returned by _parse_business has an id that is a
\* non-empty string, for every raw record, those whose `id` or `alias` value is
\* the empty string included.
C13_IdNonEmpty ==
    (Returned /\ Len(parsed) = 1) =>
        (parsed[1].id.t = "str" /\ parsed[1].id.s # "")

\* The raw value of field k, null when the key is absent.
Raw(e, k) == Get(e, k, Null)

\* The raw `categories` value is one the normalization can use: null, or a
\* list of mappings whose values are all strings.
UsableCategories(v) ==
    \/ v.t = "null"
    \/ /\ v.t = "list"
       /\ \A i \in 1..Len(v.items) :
             /\ v.items[i].t = "dict"
             /\ \A k \in DOMAIN v.items[i].d : v.items[i].d[k].t = "str"

\* The raw `coordinates` value is unusable only when it is a mapping with both
\* keys one of which is no number.
UsableCoordinates(v) ==
    (v.t = "dict" /\ HasKey(v, "latitude") /\ HasKey(v, "longitude"))
        => (v.d["latitude"].t \in {"num", "bool"}
              /\ v.d["longitude"].t \in {"num", "bool"})

\* The record holds nothing that makes a step of the normalization raise or
\* the Business model refuse a field.
UsableRecord(e) ==
    /\ Raw(e, "name").t = "str"
    /\ IF HasKey(e, "id") THEN e.d["id"].t = "str"
       ELSE IF HasKey(e, "alias") THEN e.d["alias"].t = "str"
       ELSE TRUE
    /\ Raw(e, "rating").t \in {"null", "num", "bool"}
    /\ HasKey(e, "review_count")
          => \/ e.d["review_count"].t \in {"null", "bool"}
             \/ (e.d["review_count"].t = "num" /\ e.d["review_count"].h % 100 = 0)
    /\ Raw(e, "price").t \in {"null", "str"}
    /\ ~Truthy(Raw(e, "distance")) \/ Raw(e, "distance").t \in {"num", "bool"}
    /\ ImageOf(e).t \in {"null", "str"}
    /\ UsableCategories(Raw(e, "categories"))
    /\ UsableCoordinates(Raw(e, "coordinates"))
    /\ Raw(e, "location").t \in {"null", "dict"}
    /\ Raw(e, "phone").t \in {"null", "str"}
    /\ Raw(e, "url").t \in {"null", "str"}

NamedRecord == Returned /\ entity_data.t = "dict" /\ HasKey(entity_data, "name")

\* C14 as claimed: absence of the `name` key is the only condition under
\* which _parse_business rejects a record: every raw record that contains a
\* `name` key yields exactly one Business, whatever its other fields hold.
C14_NameKeySuffices ==
    NamedRecord => Len(parsed) = 1

\* C14 as amended: _parse_business returns at most one Business and rejects
\* a record in two cases: the `name` key is absent, or a step of the
\* normalization raises or the Business model refuses a field (a name or id
\* that is no string, a non-numeric distance, categories that are no list of
\* string-valued mappings, a non-numeric rating or coordinate, ...); every
\* other record that contains a `name` key yields exactly one Business.
C14_RejectionConditions ==
    /\ Returned => Len(parsed) <= 1
    /\ NamedRecord => (Len(parsed) = 1 <=> UsableRecord(entity_data))

C14_Witness ==
    /\ NamedRecord
    /\ entity_data.d["name"].t = "str"
    /\ Raw(entity_data, "distance") = Str("far")
    /\ Len(parsed) = 0

\* A category entry with a title that is not empty.
HasTitle(c) == HasKey(c, "title") /\ c.d["title"] # Str("")

\* The titles of the raw categories, in source order, those missing or empty
\* left out.
TitlesOf(e) ==
    IF Raw(e, "categories").t # "list" THEN <<>>
    ELSE LET kept == SelectSeq(e.d["categories"].items, HasTitle)
         IN  [i \in 1..Len(kept) |-> kept[i].d["title"]]

\* C15: for every accepted record, tags is the sequence of the `title` values
\* of the raw `categories` entries, in source order, with entries whose title
\* is missing or empty left out; it is empty when `categories` is absent,
\* null or empty.
C15_TagsAreTitles ==
    Accepted => parsed[1].tags = List(TitlesOf(entity_data))

C15_Witness ==
    /\ Accepted
    /\ Raw(entity_data, "categories").t = "list"
    /\ Len(entity_data.d["categories"].items) = 2
    /\ ~HasTitle(entity_data.d["categories"].items[1])
    /\ parsed[1].tags = List(<<Str("T2")>>)

\* The raw `coordinates` value is a mapping containing both keys.
HasBothCoordinates(e) ==
    /\ Raw(e, "coordinates").t = "dict"
    /\ HasKey(e.d["coordinates"], "latitude")
    /\ HasKey(e.d["coordinates"], "longitude")

\* C16: for every accepted record, the Business coordinates are present if and
\* only if the raw `coordinates` value is a mapping containing both the
\* `latitude` and the `longitude` key, and then they equal those two raw
\* values; a mapping with one key only, or a non-mapping, gives none.
C16_Coordinates ==
    Accepted =>
        IF HasBothCoordinates(entity_data)
        THEN /\ parsed[1].coordinates.t = "dict"
             /\ DOMAIN parsed[1].coordinates.d = {"latitude", "longitude"}
             /\ \A k \in {"latitude", "longitude"} :
                   parsed[1].coordinates.d[k] = entity_data.d["coordinates"].d[k]
        ELSE parsed[1].coordinates = Null

C16_Witness ==
    /\ Accepted
    /\ Raw(entity_data, "coordinates") = Dict("latitude" :> Num(3777))
    /\ parsed[1].coordinates = Null

\* `entities` is a mapping.
MapShape == HasKey(data, "entities") /\ data.d["entities"].t = "map"

\* An item of the mapping whose value is a mapping containing a `name` key.
NamedItem(p) == p.v.t = "dict" /\ HasKey(p.v, "name")

\* The values of the named items, in the enumeration order of the mapping.
NamedValues(pairs) ==
    LET kept == SelectSeq(pairs, NamedItem)
    IN  [i \in 1..Len(kept) |-> kept[i].v]

\* C17: when `entities` is a mapping, _extract_businesses normalizes exactly
\* the values that are mappings containing a `name` key, in the enumeration
\* order of the mapping, skipping the others; the output is in that order.
C17_MapShape ==
    (Returned /\ MapShape) =>
        /\ ~extracted.raised
        /\ [i \in 1..Len(extracted.calls) |-> extracted.calls[i].arg]
              = NamedValues(data.d["entities"].pairs)
        /\ extracted.businesses = ResultsOf(extracted.calls)

C17_Witness ==
    /\ Returned /\ MapShape
    /\ Len(data.d["entities"].pairs) = 3
    /\ data.d["entities"].pairs[1].k = "e3"
    /\ ~NamedItem(data.d["entities"].pairs[2])
    /\ Len(extracted.businesses) = 2
    /\ extracted.businesses[1].name = Str("B")
    /\ extracted.businesses[2].name = Str("A")

\* `entities` is a list.
EntitiesIsList == HasKey(data, "entities") /\ data.d["entities"].t = "list"

\* C20: for every response whose `entities` is a list, _extract_businesses
\* returns normally, whatever the shape of any entity, of any entity's
\* `businesses` value (null or a non-sequence included) and of any nested
\* element: one malformed entity never keeps the well-formed records before
\* or after it out of the output.
C20_ListNeverRaises ==
    (Returned /\ EntitiesIsList) => ~extracted.raised

\* chat has built its payload.
PayloadBuilt == chatPc # "idle"

\* C18: the payload chat builds always contains `query`; it contains
\* `user_context` = {locale, latitude, longitude} when both coordinates are
\* given, {locale} when a coordinate is missing and locale is non-empty, and
\* no `user_context` otherwise; it contains `chat_id` exactly when a
\* non-empty chat_id was passed.
C18_Payload ==
    PayloadBuilt =>
        /\ HasKey(payload, "query") /\ payload.d["query"] = Str(chatArgs.query)
        /\ IF chatArgs.latitude.t = "num" /\ chatArgs.longitude.t = "num"
           THEN /\ HasKey(payload, "user_context")
                /\ payload.d["user_context"]
                      = Dict("latitude" :> chatArgs.latitude
                             @@ "longitude" :> chatArgs.longitude
                             @@ "locale" :> Str(chatArgs.locale))
           ELSE IF chatArgs.locale # ""
           THEN /\ HasKey(payload, "user_context")
                /\ payload.d["user_context"] = Dict("locale" :> Str(chatArgs.locale))
           ELSE ~HasKey(payload, "user_context")
        /\ HasKey(payload, "chat_id")
              <=> (chatArgs.chat_id.t = "str" /\ chatArgs.chat_id.s # "")
        /\ HasKey(payload, "chat_id") => payload.d["chat_id"] = chatArgs.chat_id
        /\ DOMAIN payload.d \subseteq {"query", "user_context", "chat_id"}

C18_Witness ==
    /\ chatPc = "await"
    /\ chatArgs.latitude = Num(0)
    /\ chatArgs.longitude = Num(-12241)
    /\ chatArgs.chat_id = Str("")
    /\ payload.d["user_context"].d["latitude"] = Num(0)
    /\ ~HasKey(payload, "chat_id")

\* The post of the current invocation ended in a non-success status or a
\* transport failure.
PostFailed == reply.kind \in {"status", "transport"}

\* C19: each invocation of chat issues at most one outbound request; if that
\* request ends in a non-success status or a transport failure, chat raises
\* to its caller without a second request and without a ChatResponse.
C19_OnePostNoRetry ==
    /\ posts <= 1
    /\ PostFailed => (chatPc = "raised" /\ posts = 1 /\ chatResult = Null)
    /\ chatPc = "raised" => chatResult = Null

C19_Witness ==
    /\ nchat = 2
    /\ chatPc = "raised"
    /\ reply.kind = "transport"
    /\ posts = 1
    /\ chatResult = Null

\* The step is a call of _parse_business or _extract_businesses returning.
NormalizerReturns == pc = "call" /\ pc' = "ret"

\* C21: _parse_business and _extract_businesses leave their input unchanged:
\* after either returns (with a Business, a rejection or an empty sequence)
\* or raises, the raw record and the response mapping have the keys and
\* values they had before the call.
C21_InputUnchanged ==
    [][NormalizerReturns => (entity_data' = entity_data /\ data' = data)]_vars

C21_Witness ==
    /\ Returned
    /\ ~extracted.raised
    /\ HasKey(data, "entities")
    /\ data.d["entities"].t = "list"
    /\ Len(extracted.calls) = 3
    /\ Len(extracted.businesses) = 2
    /\ ~HasKey(extracted.calls[1].arg, "review_count")

\* The callback tasks bearing token s that passed the state check, and those
\* that reached the token exchange.
PassedWith(s) == {t \in TaskIds : tasks[t].state = s /\ tasks[t].passed}
ExchangedWith(s) == {t \in TaskIds : tasks[t].state = s /\ tasks[t].exchanged}

\* C22: under every interleaving of concurrently handled callback requests
\* bearing the same issued state token, at most one passes the state check
\* and reaches the token exchange; no task is suspended between its
\* membership test and its removal of the token.
C22_OnePassesConcurrently ==
    /\ \A s \in Tokens :
          /\ Cardinality(PassedWith(s)) <= 1
          /\ Cardinality(ExchangedWith(s)) <= 1
    /\ \A t \in TaskIds : tasks[t].pc = "pop" => running = t

C22_Witness ==
    /\ tasks[1].state \in issued
    /\ tasks[2].state = tasks[1].state
    /\ tasks[1].pc = "check"
    /\ tasks[2].pc = "exchange"
    /\ tasks[2].passed
    /\ running = 2

\* C23: the state token is consumed before the token exchange is attempted:
\* if exchange_code_for_token raises during a callback bearing a valid state,
\* the callback fails with an error response, the token is no longer in the
\* store, and a later callback with the same state is rejected as unknown
\* without another exchange.
C23_ConsumedBeforeExchange ==
    [][\A s \in Tokens :
          /\ (CallbackBearing(s) /\ response'.exchange = "raised")
                => /\ s \in DOMAIN oauth_states
                   /\ response'.known
                   /\ response'.status = 500
                   /\ s \notin DOMAIN oauth_states'
          /\ (CallbackBearing(s) /\ flows[s].failed)
                => /\ ~response'.known
                   /\ response'.status # 200
                   /\ response'.exchange = "none"
                   /\ exchangeCalls' = exchangeCalls
                   /\ s \notin DOMAIN oauth_states']_vars

C23_Witness ==
    /\ response.op = "callback"
    /\ response.state \in issued
    /\ flows[response.state].failed
    /\ flows[response.state].callbacks = 2
    /\ ~response.known
    /\ response.status = 500
    /\ exchangeCalls = 1

====
